---- MODULE Spec2Model ----
(***************************************************************************)
(* Model of the Global Text Summarizer request pipeline.                   *)
(*                                                                         *)
(* The repository holds two variants of the same Flask application:        *)
(*   "app" : src/app.py         (process, clear_history, index)            *)
(*   "api" : src/api/index.py   (process, clear, home)                     *)
(* The variant is fixed by Init and never changes.  Both share the module  *)
(* level list summaries_history, modelled by the variable history.         *)
(*                                                                         *)
(* Strings whose content the code inspects (strip, startswith, truth       *)
(* value) are sequences of one-character strings over Alphabet.            *)
(***************************************************************************)
EXTENDS Integers, Sequences, FiniteSets, TLC

VARIABLES
    variant,    \* "app" or "api": which source file is running
    history,    \* summaries_history
    fs,         \* staged files on disk: pairs <<path, number of the request that wrote it>>
    req,        \* per worker thread: position in process() and its locals
    clock,      \* datetime.now(), advanced by every request that starts
    nsumm,      \* number of texts the external summarizer has produced so far
    budget,     \* requests that may still start
    cpc,        \* position of the clear handler: "idle" or "cleared"
    lastView,   \* the history snapshot most recently returned to a caller
    appendLog,  \* every record appended, in append order (initial ones included)
    base,       \* the history at Init
    cleared,    \* a clear has run
    h0          \* the history when the latest process request started

vars == <<variant, history, fs, req, clock, nsumm, budget, cpc, lastView,
          appendLog, base, cleared, h0>>

----------------------------------------------------------------------------
(* Bounds *)

\* longest text a caller or an extractor supplies
MaxTextLen == 1
\* worker threads of the concurrent specification
NWorkers == 2
\* process requests of Spec (all input channels, one request at a time)
MaxRequests == 1
\* process requests of SpecSeq (text requests, one at a time)
MaxSeqRequests == 7
\* process requests of SpecConc (text requests, concurrent)
MaxConcRequests == 2

(* Program constants *)

\* "if len(summaries_history) > 5" / "summaries_history[-5:]"
HistoryCap == 5

Workers == 1..NWorkers

----------------------------------------------------------------------------
(* Strings *)

\* "W" stands for the warning marker, " " for whitespace, "a" for any other
\* character
WARN == "W"
Alphabet == {WARN, " ", "a"}

Texts == UNION {[1..n -> Alphabet] : n \in 0..MaxTextLen}

\* An exception raised by a library call
Fault == <<"FAULT">>

RECURSIVE LStrip(_)
LStrip(s) == IF s # <<>> /\ Head(s) = " " THEN LStrip(Tail(s)) ELSE s

RECURSIVE RStrip(_)
RStrip(s) ==
    IF s # <<>> /\ s[Len(s)] = " " THEN RStrip(SubSeq(s, 1, Len(s) - 1)) ELSE s

\* str.strip()
Strip(s) == RStrip(LStrip(s))

\* str.startswith(p)
StartsWith(s, p) == Len(s) >= Len(p) /\ SubSeq(s, 1, Len(p)) = p

\* the last n elements of a list: lst[-n:]
LastN(s, n) == IF Len(s) <= n THEN s ELSE SubSeq(s, Len(s) - n + 1, Len(s))

----------------------------------------------------------------------------
(* Request inputs *)

\* str.lower(), on the letters the file names below use
LowerChar(c) ==
    CASE c = "P" -> "p"
      [] c = "D" -> "d"
      [] c = "F" -> "f"
      [] OTHER -> c

Lower(s) == [i \in 1..Len(s) |-> LowerChar(s[i])]

\* os.path.splitext(name)[1]: from the last dot on, unless that dot leads the name
LastDot(s) ==
    LET dots == {i \in 1..Len(s) : s[i] = "."}
    IN  IF dots = {} THEN 0 ELSE CHOOSE i \in dots : \A j \in dots : j <= i

SplitExt(s) ==
    LET d == LastDot(s) IN IF d > 1 THEN SubSeq(s, d, Len(s)) ELSE <<>>

Pdf  == <<".", "p", "d", "f">>
Docx == <<".", "d", "o", "c", "x">>
Txt  == <<".", "t", "x", "t">>
Png  == <<".", "p", "n", "g">>
Jpg  == <<".", "j", "p", "g">>
Jpeg == <<".", "j", "p", "e", "g">>

\* declared file names a caller may upload; the empty name is what a form
\* posts when no file was chosen
Filenames ==
    {<<>>} \cup
    {<<"f">> \o e : e \in {Pdf, Docx, Txt, Png, Jpg, Jpeg,
                           <<".", "e", "x", "e">>, <<".", "P", "D", "F">>}}

\* request.files.get("file")
NoFile == [present |-> FALSE, filename |-> <<>>]
Files == {NoFile} \cup {[present |-> TRUE, filename |-> n] : n \in Filenames}

\* truth value of an uploaded file ("if uploaded_file:" / "if file:"):
\* a FileStorage is true when its filename is non-empty
FileTruthy(f) == f.present /\ f.filename # <<>>

\* request.form.get("url_input") / ("url"): absent and empty are both false
Urls == {<<>>, <<"u">>}

\* what staging the upload can do: succeed, or fail while writing the file
SaveOutcomes == {"ok", "fault"}

\* what a library call hands back: a text, or an exception
Outcomes == Texts \cup {Fault}

NoPath == <<>>

\* the disk
Exists(p) == \E e \in fs : e[1] = p
WriteFile(p, n) == {e \in fs : e[1] # p} \cup {<<p, n>>}
RemoveFile(p) == {e \in fs : e[1] # p}

\* the form fields that shape the summary: a field is absent from the form,
\* or holds a string
Absent == "<absent>"
Form(ol, sl, sf) ==
    [output_lang |-> ol, summary_length |-> sl, summary_format |-> sf,
     input_lang |-> Absent]
DefaultForm == Form(Absent, Absent, Absent)
Forms ==
    {Form(ol, sl, sf) : ol \in {Absent, "", "Hindi"},
                        sl \in {Absent, "Short", "Long", "Huge"},
                        sf \in {Absent, "Paragraph", "Bullets"}}

\* the input language of a form: absent, empty, a language of the page's
\* select box, or another name
InputLangs ==
    {Absent, "", "English", "Hindi", "French", "Spanish", "German",
     "Chinese", "Japanese", "Klingon"}
OcrForms == {[DefaultForm EXCEPT !.input_lang = il] : il \in InputLangs}

\* src/app.py lines 98-102: ocr_lang_map.get(input_lang, "eng")
OcrLangMap(input_lang) ==
    CASE input_lang = "English" -> "eng"
      [] input_lang = "Hindi" -> "hin"
      [] input_lang = "French" -> "fra"
      [] input_lang = "Spanish" -> "spa"
      [] input_lang = "German" -> "deu"
      [] input_lang = "Chinese" -> "chi_sim"
      [] input_lang = "Japanese" -> "jpn"
      [] OTHER -> "eng"

\* pytesseract.image_to_string(img) called without a lang argument
\* (src/api/index.py lines 40, 57)
NoLang == "<none>"

\* request.form.get(name) or default (src/app.py lines 88-91)
OrDefault(v, d) == IF v = Absent \/ v = "" THEN d ELSE v

\* request.form.get(name, default) (src/api/index.py lines 77-78)
GetDefault(v, d) == IF v = Absent THEN d ELSE v

\* what reaches the summarizer: the parts process() puts into the prompt,
\* and max_output_tokens (0 when the call does not pass it)
NoPrompt ==
    [lang |-> "", style |-> "", words |-> 0, text |-> <<>>,
     max_output_tokens |-> 0]

\* a worker thread between requests
IdleReq ==
    [pc |-> "idle", n |-> 0, file |-> NoFile, url |-> <<>>, text |-> <<>>,
     output_lang |-> "English", summary_length |-> "Medium",
     summary_format |-> "Paragraph", input_lang |-> Absent, ocr_lang |-> "",
     timestamp |-> 0, chan |-> "none", route |-> "none", fetched |-> FALSE,
     path |-> NoPath, extracted_text |-> <<>>, pending |-> FALSE,
     error |-> "", detail |-> "", summary |-> 0, tmp |-> <<>>,
     fail |-> "", called |-> FALSE, prompt |-> NoPrompt, read |-> {},
     ocr_pages |-> <<>>]

\* a history record: src/app.py lines 144-150, src/api/index.py lines 133-136
Rec(v, ts, s, lang, len, fmt) ==
    IF v = "app" THEN [timestamp |-> ts, summary |-> s, language |-> lang,
                       length |-> len, format |-> fmt]
                 ELSE [time |-> ts, summary |-> s]

\* the history after k successful text requests served one after another,
\* their forms leaving language, length and format to the defaults
Prefill(v, k) ==
    [i \in 1..k |-> Rec(v, i, i, "English", "Medium", "Paragraph")]

----------------------------------------------------------------------------
(* process(): reading the request and selecting the input channel *)

\* an extension check that lets executables through
ExtensionsWithExe ==
    {Pdf, Docx, Txt, Png, Jpg, Jpeg, <<".", "e", "x", "e">>}

valid_extensions == {Pdf, Docx, Txt, Png, Jpg, Jpeg}

\* a dispatcher that looks at the url before the file
SelectUrlFirst(f, u, t) ==
    IF u # <<>> THEN "url"
    ELSE IF FileTruthy(f) THEN "file"
    ELSE IF t # <<>> THEN "text"
    ELSE "none"

\* src/app.py: the branch taken by "if uploaded_file / elif url_input / elif text_input"
SelectApp(f, u, t) ==
    IF FileTruthy(f) THEN "file"
    ELSE IF u # <<>> THEN "url"
    ELSE IF t # <<>> THEN "text"
    ELSE "none"

\* a dispatcher that prefers the literal text to the url
SelectTextBeforeUrl(f, u, t) ==
    IF FileTruthy(f) THEN "file"
    ELSE IF t # <<>> THEN "text"
    ELSE IF u # <<>> THEN "url"
    ELSE "none"

\* src/api/index.py: the branch taken by "if file / elif url_input / elif text_input / else"
SelectApi(f, u, t) ==
    IF FileTruthy(f) THEN "file"
    ELSE IF u # <<>> THEN "url"
    ELSE IF t # <<>> THEN "text"
    ELSE "none"

\* src/app.py lines 81-110 and 124-134: the request is read and the channel
\* selected; an unsupported extension is refused here, before any staging
StartApp(r1, f, u, t, o) ==
    LET sel == SelectApp(f, u, t)
        r0 == [r1 EXCEPT
                 !.input_lang = o.input_lang,
                 !.output_lang = OrDefault(o.output_lang, "English"),
                 !.summary_length = OrDefault(o.summary_length, "Medium"),
                 !.summary_format = OrDefault(o.summary_format, "Paragraph")]
        file_ext == Lower(SplitExt(f.filename))
    IN  CASE sel = "file" /\ file_ext \notin valid_extensions ->
                [r0 EXCEPT !.chan = "file", !.route = "unsupported",
                           !.error = "Unsupported file type",
                           !.fail = "UnsupportedType", !.pc = "summarize"]
          [] sel = "file" /\ file_ext \in valid_extensions ->
                [r0 EXCEPT !.chan = "file", !.pc = "stage"]
          [] sel = "url" ->
                [r0 EXCEPT !.chan = "url", !.pc = "fetch"]
          [] sel = "text" ->
                [r0 EXCEPT !.chan = "text", !.extracted_text = t,
                           !.pc = "summarize"]
          [] OTHER ->
                [r0 EXCEPT !.chan = "none", !.fail = "NoInput",
                           !.pc = "summarize"]

\* src/api/index.py lines 69-85 and 106-120
StartApi(r1, f, u, t, o) ==
    LET sel == SelectApi(f, u, t)
        r0 == [r1 EXCEPT
                 !.input_lang = o.input_lang,
                 !.output_lang = GetDefault(o.output_lang, "English"),
                 !.summary_length = GetDefault(o.summary_length, "Medium")]
    IN  CASE sel = "file" ->
                [r0 EXCEPT !.chan = "file", !.pc = "stage"]
          [] sel = "url" ->
                [r0 EXCEPT !.chan = "url", !.pc = "fetch"]
          [] sel = "text" ->
                [r0 EXCEPT !.chan = "text", !.extracted_text = t,
                           !.pc = "summarize"]
          [] OTHER ->
                [r0 EXCEPT !.chan = "none", !.error = "No input provided",
                           !.fail = "NoInput", !.pc = "summarize"]

\* A request arrives at worker w with file f, url u, text t and form o.
Start(w, f, u, t, o) ==
    /\ req[w].pc \in {"idle", "done", "raised"}
    /\ budget > 0
    /\ LET r0 == [IdleReq EXCEPT !.n = clock + 1, !.file = f, !.url = u,
                                 !.text = t, !.timestamp = clock + 1]
       IN  req' = [req EXCEPT ![w] = IF variant = "app"
                                     THEN StartApp(r0, f, u, t, o)
                                     ELSE StartApi(r0, f, u, t, o)]
    /\ clock' = clock + 1
    /\ budget' = budget - 1
    /\ h0' = history
    /\ UNCHANGED <<variant, history, fs, nsumm, cpc, lastView, appendLog,
                   base, cleared>>

\* where the upload is staged: src/app.py line 111 joins "Uploads" and the
\* declared file name; src/api/index.py line 86 takes a fresh temporary name
StagePath(r) ==
    IF variant = "app" THEN <<"Uploads">> \o r.file.filename
                       ELSE <<"tmp", r.n>>

\* uploaded_file.save(file_path) / NamedTemporaryFile + file.save(tmp.name):
\* the file is created, and writing it succeeds (sv = "ok") or raises
StageStep(r, sv) ==
    [r EXCEPT !.path = StagePath(r),
              !.pc = IF sv = "ok" THEN "extract" ELSE "raised"]

Stage(w, sv) ==
    /\ req[w].pc = "stage"
    /\ req' = [req EXCEPT ![w] = StageStep(req[w], sv)]
    /\ fs' = WriteFile(StagePath(req[w]), req[w].n)
    /\ UNCHANGED <<variant, history, clock, nsumm, budget, cpc, lastView,
                   appendLog, base, cleared, h0>>

\* a fetch that swallows its fault and goes on with an empty page
FetchSilent(r, pg) ==
    [r EXCEPT !.fetched = TRUE,
              !.extracted_text = IF pg = Fault THEN <<>> ELSE Strip(pg),
              !.pc = "summarize"]

\* src/app.py lines 125-132: requests.get, raise_for_status, get_text with
\* strip=True; any exception becomes error_msg
FetchApp(r, pg) ==
    IF pg = Fault
    THEN [r EXCEPT !.fetched = TRUE, !.error = "Error fetching URL",
                   !.fail = "FetchError", !.pc = "summarize"]
    ELSE [r EXCEPT !.fetched = TRUE, !.extracted_text = Strip(pg),
                   !.pc = "summarize"]

\* a fetch that, on a fault, goes on with the request's text
FetchThenText(r, pg) ==
    IF pg = Fault
    THEN [r EXCEPT !.fetched = TRUE, !.error = "URL error",
                   !.fail = "FetchError", !.extracted_text = r.text,
                   !.pc = "summarize"]
    ELSE [r EXCEPT !.fetched = TRUE, !.extracted_text = pg,
                   !.pc = "summarize"]

\* src/api/index.py lines 107-113
FetchApi(r, pg) ==
    IF pg = Fault
    THEN [r EXCEPT !.fetched = TRUE, !.error = "URL error",
                   !.fail = "FetchError", !.pc = "summarize"]
    ELSE [r EXCEPT !.fetched = TRUE, !.extracted_text = pg,
                   !.pc = "summarize"]

\* Worker w fetches its url; the fetch yields the page text pg or a fault.
Fetch(w, pg) ==
    /\ req[w].pc = "fetch"
    /\ req' = [req EXCEPT ![w] = IF variant = "app" THEN FetchApp(req[w], pg)
                                                    ELSE FetchApi(req[w], pg)]
    /\ UNCHANGED <<variant, history, fs, clock, nsumm, budget, cpc, lastView,
                   appendLog, base, cleared, h0>>

----------------------------------------------------------------------------
(* Format extractors.  r1 is what the first library call yields on the     *)
(* staged file: the PDF text layer, the DOCX paragraphs, the OCR of an     *)
(* image, the decoded text file.  A result is [text, fail, raised, ocr]:   *)
(* the returned string, the failure the extraction met ("" when none),     *)
(* whether an exception escapes, and whether the PDF extractor goes on to  *)
(* OCR the first page.                                                     *)

\* the message bodies the extractors build: "e" an error text, "n" a
\* nothing-found text
ErrApp    == <<WARN, "e">>
NoTextApp == <<WARN, "n">>
ErrApi    == <<"e">>

Result(text, fail) ==
    [text |-> text, fail |-> fail, raised |-> FALSE, ocr |-> FALSE]
Raise == [text |-> <<>>, fail |-> "", raised |-> TRUE, ocr |-> FALSE]
Fallback == [text |-> <<>>, fail |-> "", raised |-> FALSE, ocr |-> TRUE]

\* a PDF extractor that goes to OCR whatever the text layer holds
ExtractPdfOcrAlways(exists, r1) ==
    IF ~exists \/ r1 = Fault THEN Result(ErrApp, "ExtractionError")
    ELSE Fallback

\* src/app.py extract_pdf_text, lines 42-45: the text layer
ExtractPdfApp(exists, r1) ==
    IF ~exists \/ r1 = Fault THEN Result(ErrApp, "ExtractionError")
    ELSE IF Strip(r1) # <<>> THEN Result(r1, "")
    ELSE Fallback

\* src/app.py extract_pdf_text, lines 47-54: OCR of the first page; each
\* page image adds its OCR text and a newline
OcrPdfApp(r2) ==
    IF r2 = Fault THEN Result(ErrApp, "ExtractionError")
    ELSE LET ocr_text == r2 \o <<" ">>
         IN  IF Strip(ocr_text) # <<>> THEN Result(ocr_text, "")
             ELSE Result(NoTextApp, "NoTextDetected")

\* src/app.py extract_docx_text
ExtractDocxApp(exists, r1) ==
    IF ~exists \/ r1 = Fault THEN Result(ErrApp, "ExtractionError")
    ELSE Result(r1, "")

\* src/app.py extract_image_text
ExtractImageApp(exists, r1) ==
    IF ~exists \/ r1 = Fault THEN Result(ErrApp, "ExtractionError")
    ELSE IF Strip(r1) # <<>> THEN Result(r1, "")
    ELSE Result(NoTextApp, "NoTextDetected")

\* open(path, "r", encoding="utf-8").read(), outside any try/except
ReadTxt(exists, r1) ==
    IF ~exists \/ r1 = Fault THEN Raise ELSE Result(r1, "")

\* src/api/index.py extract_pdf_text, lines 34-37: the text layer
ExtractPdfApi(exists, r1) ==
    IF ~exists \/ r1 = Fault THEN Result(ErrApi, "ExtractionError")
    ELSE IF Strip(r1) # <<>> THEN Result(r1, "")
    ELSE Fallback

\* src/api/index.py extract_pdf_text, lines 39-44: OCR of the first page,
\* returned as it is
OcrPdfApi(r2) ==
    IF r2 = Fault THEN Result(ErrApi, "ExtractionError")
    ELSE Result(r2, IF Strip(r2) = <<>> THEN "NoTextDetected" ELSE "")

\* src/api/index.py extract_docx_text
ExtractDocxApi(exists, r1) ==
    IF ~exists \/ r1 = Fault THEN Result(ErrApi, "ExtractionError")
    ELSE Result(r1, "")

\* src/api/index.py extract_image_text
ExtractImageApi(exists, r1) ==
    IF ~exists \/ r1 = Fault THEN Result(ErrApi, "ExtractionError")
    ELSE Result(r1, IF Strip(r1) = <<>> THEN "NoTextDetected" ELSE "")

\* src/app.py lines 114-122: route by file_ext
RouteApp(file_ext) ==
    CASE file_ext = Pdf -> "pdf"
      [] file_ext = Docx -> "docx"
      [] file_ext = Txt -> "txt"
      [] file_ext \in {Png, Jpg, Jpeg} -> "image"
      [] OTHER -> "none"

\* src/api/index.py lines 91-101: route by suffix
RouteApi(suffix) ==
    CASE suffix = Pdf -> "pdf"
      [] suffix = Docx -> "docx"
      [] suffix \in {Png, Jpg, Jpeg} -> "image"
      [] suffix = Txt -> "txt"
      [] OTHER -> "unsupported"

\* the worker's locals once the extractor has returned res
\* (src/app.py: the next statement is os.remove; an exception skips it)
AfterExtractApp(r, res) ==
    IF res.raised THEN [r EXCEPT !.pc = "raised"]
    ELSE IF res.ocr THEN [r EXCEPT !.pc = "ocr"]
    ELSE [r EXCEPT !.extracted_text = res.text, !.fail = res.fail,
                   !.pc = "remove"]

\* (src/api/index.py: the finally clause runs os.remove whatever happened)
AfterExtractApi(r, res) ==
    IF res.raised THEN [r EXCEPT !.pending = TRUE, !.pc = "remove"]
    ELSE IF res.ocr THEN [r EXCEPT !.pc = "ocr"]
    ELSE [r EXCEPT !.extracted_text = res.text, !.fail = res.fail,
                   !.pc = "remove"]

ExtractApp(r, exists, r1) ==
    LET route == RouteApp(Lower(SplitExt(r.file.filename)))
        res == CASE route = "pdf" -> ExtractPdfApp(exists, r1)
                 [] route = "docx" -> ExtractDocxApp(exists, r1)
                 [] route = "txt" -> ReadTxt(exists, r1)
                 [] route = "image" -> ExtractImageApp(exists, r1)
                 [] OTHER -> Result(<<>>, "")
    IN  AfterExtractApp([r EXCEPT !.route = route], res)

ExtractApi(r, exists, r1) ==
    LET route == RouteApi(Lower(SplitExt(r.file.filename)))
        res == CASE route = "pdf" -> ExtractPdfApi(exists, r1)
                 [] route = "docx" -> ExtractDocxApi(exists, r1)
                 [] route = "image" -> ExtractImageApi(exists, r1)
                 [] route = "txt" -> ReadTxt(exists, r1)
                 [] OTHER -> Result(<<>>, "UnsupportedType")
    IN  AfterExtractApi([r EXCEPT !.route = route,
                                  !.error = IF route = "unsupported"
                                            THEN "Unsupported file type"
                                            ELSE @], res)

\* the lang argument of the pytesseract call worker r makes: src/app.py
\* passes ocr_lang (lines 50, 68, 102, 115, 121), src/api/index.py none
OcrLangUsed(r) ==
    IF variant = "app" THEN OcrLangMap(OrDefault(r.input_lang, "English"))
                       ELSE NoLang

\* the requests whose upload the file at path p holds
Owners(p) == {e[2] : e \in {x \in fs : x[1] = p}}

\* Worker w runs the extractor its file is routed to; the extractor opens
\* the file at the staging path (read: whose upload it found there).
Extract(w, r1) ==
    /\ req[w].pc = "extract"
    /\ LET r == req[w]
           after == IF variant = "app"
                    THEN ExtractApp(r, Exists(r.path), r1)
                    ELSE ExtractApi(r, Exists(r.path), r1)
           ocr == after.route = "image" /\ Exists(r.path) /\ r1 # Fault
       IN  req' = [req EXCEPT ![w] =
                     IF after.route \in {"pdf", "docx", "txt", "image"}
                     THEN [after EXCEPT !.read = @ \cup Owners(r.path),
                                        !.ocr_lang = IF ocr THEN OcrLangUsed(r)
                                                            ELSE @]
                     ELSE after]
    /\ UNCHANGED <<variant, history, fs, clock, nsumm, budget, cpc, lastView,
                   appendLog, base, cleared, h0>>

\* convert_from_path(path, first_page, last_page) on a PDF of npages pages:
\* the pages rendered, in order
ConvertFromPath(npages, first_page, last_page) ==
    LET last == IF last_page < npages THEN last_page ELSE npages
    IN  [i \in 1..(last - first_page + 1) |-> first_page + i - 1]

\* the largest page count of an uploaded PDF
MaxPages == 2

\* Worker w's PDF extractor, its text layer blank, renders the PDF (of
\* npages pages) from first_page=1 to last_page=1 and runs OCR on the
\* images; r2 is what rendering and OCR yield, a fault when the file is gone.
Ocr(w, npages, r2) ==
    /\ req[w].pc = "ocr"
    /\ LET out == IF Exists(req[w].path) THEN r2 ELSE Fault
           r == [req[w] EXCEPT !.read = @ \cup Owners(req[w].path),
                               !.ocr_pages = ConvertFromPath(npages, 1, 1),
                               !.ocr_lang = IF out # Fault
                                            THEN OcrLangUsed(req[w]) ELSE @]
       IN  req' = [req EXCEPT ![w] =
                     IF variant = "app"
                     THEN AfterExtractApp(r, OcrPdfApp(out))
                     ELSE AfterExtractApi(r, OcrPdfApi(out))]
    /\ UNCHANGED <<variant, history, fs, clock, nsumm, budget, cpc, lastView,
                   appendLog, base, cleared, h0>>

\* os.remove(file_path) (src/app.py line 123) / the finally clause
\* os.remove(path) (src/api/index.py lines 102-103); removing a missing
\* file raises
RemoveStep(r, exists) ==
    IF ~exists \/ r.pending THEN [r EXCEPT !.pc = "raised"]
    ELSE [r EXCEPT !.pc = "summarize"]

Remove(w) ==
    /\ req[w].pc = "remove"
    /\ req' = [req EXCEPT ![w] = RemoveStep(req[w], Exists(req[w].path))]
    /\ fs' = RemoveFile(req[w].path)
    /\ UNCHANGED <<variant, history, clock, nsumm, budget, cpc, lastView,
                   appendLog, base, cleared, h0>>

----------------------------------------------------------------------------
(* process(): summarization, history update, response *)

\* src/app.py line 136
ShouldSummarizeApp(r) ==
    Strip(r.extracted_text) # <<>> /\ ~StartsWith(r.extracted_text, <<WARN>>)

\* src/api/index.py line 123
ShouldSummarizeApi(r) == r.extracted_text # <<>> /\ r.error = ""

\* the record process() appends: src/app.py stamps it with the time the
\* request started, src/api/index.py with the time of the append
NewRecord(r) ==
    IF variant = "app"
    THEN Rec("app", r.timestamp, nsumm + 1, r.output_lang, r.summary_length,
             r.summary_format)
    ELSE Rec("api", clock, nsumm + 1, r.output_lang, r.summary_length,
             r.summary_format)

\* length_map.get(summary_length, 200)
WordLimit(summary_length) ==
    CASE summary_length = "Short" -> 100
      [] summary_length = "Medium" -> 200
      [] summary_length = "Long" -> 300
      [] OTHER -> 200

\* src/app.py line 96
FormatPrompt(summary_format) ==
    IF summary_format = "Paragraph" THEN "as a paragraph"
                                    ELSE "in bullet points"

\* src/app.py line 141: the contents handed to generate_content
PromptApp(r) ==
    [lang |-> r.output_lang, style |-> FormatPrompt(r.summary_format),
     words |-> WordLimit(r.summary_length), text |-> r.extracted_text,
     max_output_tokens |-> 0]

\* src/api/index.py lines 127-128: the prompt and max_output_tokens handed
\* to generate_text
PromptApi(r) ==
    [lang |-> r.output_lang, style |-> "",
     words |-> WordLimit(r.summary_length), text |-> r.extracted_text,
     max_output_tokens |-> WordLimit(r.summary_length) * 2]

\* what the summarizer call yields: a text ("ok"), or an exception carrying
\* the provider's error text
ProviderErrors == {"quota"}
SummarizerOutcomes == {"ok"} \cup ProviderErrors

\* summaries_history.append(record)
AppendHistory(h, rec) == Append(h, rec)

\* a handler that reports a fixed message whatever the provider said
SummarizeStepGeneric(r, out) ==
    IF out = "ok"
    THEN [r EXCEPT !.called = TRUE, !.summary = nsumm + 1, !.pc = "trim"]
    ELSE [r EXCEPT !.called = TRUE, !.error = "Summarization failed",
                   !.pc = "respond"]

\* the worker's locals after the summarizer call: it returned (out = "ok")
\* or raised; the error is the variant's prefix followed by the exception's
\* text (detail)
SummarizeStep(r, out) ==
    LET p == IF variant = "app" THEN PromptApp(r) ELSE PromptApi(r)
    IN  IF out = "ok"
        THEN [r EXCEPT !.called = TRUE, !.prompt = p,
                       !.summary = nsumm + 1, !.pc = "trim"]
        ELSE [r EXCEPT !.called = TRUE, !.prompt = p,
                       !.error = IF variant = "app"
                                 THEN "Summarization failed"
                                 ELSE "Gemini error",
                       !.detail = out,
                       !.fail = IF @ = "" THEN "SummarizationError" ELSE @,
                       !.pc = "respond"]

\* Worker w reaches the summarization block; the external summarizer, when
\* called, returns a text (out = "ok") or raises.
Summarize(w, out) ==
    /\ req[w].pc = "summarize"
    /\ IF (variant = "app" /\ ShouldSummarizeApp(req[w]))
          \/ (variant = "api" /\ ShouldSummarizeApi(req[w]))
       THEN /\ req' = [req EXCEPT ![w] = SummarizeStep(req[w], out)]
            /\ IF out = "ok"
               THEN /\ history' = AppendHistory(history, NewRecord(req[w]))
                    /\ appendLog' = Append(appendLog, NewRecord(req[w]))
                    /\ nsumm' = nsumm + 1
               ELSE UNCHANGED <<history, appendLog, nsumm>>
       ELSE /\ req' = [req EXCEPT ![w].pc = "respond"]
            /\ UNCHANGED <<history, appendLog, nsumm>>
    /\ UNCHANGED <<variant, fs, clock, budget, cpc, lastView, base, cleared,
                   h0>>

\* src/app.py line 151: if len(summaries_history) > 5
OverCap(h) == Len(h) > HistoryCap

TrimCheck(w) ==
    /\ variant = "app"
    /\ req[w].pc = "trim"
    /\ req' = [req EXCEPT ![w].pc = IF OverCap(history) THEN "pop"
                                                        ELSE "respond"]
    /\ UNCHANGED <<variant, history, fs, clock, nsumm, budget, cpc, lastView,
                   appendLog, base, cleared, h0>>

\* list.pop(): the newest record goes instead of the oldest
PopBack(h) == SubSeq(h, 1, Len(h) - 1)

\* list.pop(0)
PopFront(h) == Tail(h)

\* src/app.py line 152: summaries_history.pop(0); on an empty list it raises
\* inside the try block, and line 154 reports a failed summarization
Pop(w) ==
    /\ variant = "app"
    /\ req[w].pc = "pop"
    /\ IF history # <<>>
       THEN /\ history' = PopFront(history)
            /\ req' = [req EXCEPT ![w].pc = "respond"]
       ELSE /\ history' = history
            /\ req' = [req EXCEPT ![w].error = "Summarization failed",
                                  ![w].pc = "respond"]
    /\ UNCHANGED <<variant, fs, clock, nsumm, budget, cpc, lastView,
                   appendLog, base, cleared, h0>>

\* src/api/index.py line 139, right-hand side: summaries_history[-5:]
TrimSlice(h) == LastN(h, HistoryCap)

SliceRead(w) ==
    /\ variant = "api"
    /\ req[w].pc = "trim"
    /\ req' = [req EXCEPT ![w].tmp = TrimSlice(history), ![w].pc = "assign"]
    /\ UNCHANGED <<variant, history, fs, clock, nsumm, budget, cpc, lastView,
                   appendLog, base, cleared, h0>>

\* src/api/index.py line 139, the assignment: summaries_history[:] = ...
SliceAssign(w) ==
    /\ variant = "api"
    /\ req[w].pc = "assign"
    /\ history' = req[w].tmp
    /\ req' = [req EXCEPT ![w].tmp = <<>>, ![w].pc = "respond"]
    /\ UNCHANGED <<variant, fs, clock, nsumm, budget, cpc, lastView,
                   appendLog, base, cleared, h0>>

\* return jsonify({"summary": ..., "error": ..., "history": summaries_history}):
\* the response carries the worker's summary and error and lists the history
Respond(w) ==
    /\ req[w].pc = "respond"
    /\ req' = [req EXCEPT ![w].pc = "done"]
    /\ lastView' = history
    /\ UNCHANGED <<variant, history, fs, clock, nsumm, budget, cpc,
                   appendLog, base, cleared, h0>>

----------------------------------------------------------------------------
(* clear and the index page *)

\* a clear that keeps the newest record
ClearedButNewest(h) == IF h = <<>> THEN <<>> ELSE <<h[Len(h)]>>

\* summaries_history.clear()
Cleared(h) == <<>>

ClearHistory ==
    /\ cpc = "idle"
    /\ history' = Cleared(history)
    /\ cpc' = "cleared"
    /\ cleared' = TRUE
    /\ UNCHANGED <<variant, fs, req, clock, nsumm, budget, lastView,
                   appendLog, base, h0>>

\* what clear and the index page return: src/app.py lists summaries_history
\* in clear_history and index; src/api/index.py returns only a status from
\* clear and home, so the caller's latest snapshot stays what it was
View == IF variant = "app" THEN history ELSE lastView

ClearRespond ==
    /\ cpc = "cleared"
    /\ lastView' = View
    /\ cpc' = "idle"
    /\ UNCHANGED <<variant, history, fs, req, clock, nsumm, budget,
                   appendLog, base, cleared, h0>>

Index ==
    /\ lastView' = View
    /\ UNCHANGED <<variant, history, fs, req, clock, nsumm, budget, cpc,
                   appendLog, base, cleared, h0>>

----------------------------------------------------------------------------
(* Specifications *)

\* the server after k successful text requests and b requests still to come
InitWith(k, b) ==
    /\ variant \in {"app", "api"}
    /\ history = Prefill(variant, k)
    /\ fs = {}
    /\ req = [w \in Workers |-> IdleReq]
    /\ clock = k
    /\ nsumm = k
    /\ budget = b
    /\ cpc = "idle"
    /\ lastView = <<>>
    /\ appendLog = history
    /\ base = history
    /\ cleared = FALSE
    /\ h0 = history

\* the steps of process() after the request was read
Steps(w) ==
    \/ \E sv \in SaveOutcomes : Stage(w, sv)
    \/ \E pg \in Outcomes : Fetch(w, pg)
    \/ \E r1 \in Outcomes : Extract(w, r1)
    \/ \E np \in 1..MaxPages, r2 \in Outcomes : Ocr(w, np, r2)
    \/ Remove(w)
    \/ \E out \in SummarizerOutcomes : Summarize(w, out)
    \/ TrimCheck(w)
    \/ Pop(w)
    \/ SliceRead(w)
    \/ SliceAssign(w)
    \/ Respond(w)

\* Spec: one process request at a time, over every input channel, on a
\* server whose history is empty or full
Init == \E k \in {0, HistoryCap} : InitWith(k, MaxRequests)

Next ==
    \E w \in {1} :
        \/ \E f \in Files, u \in Urls, t \in Texts :
               Start(w, f, u, t, DefaultForm)
        \/ Steps(w)

Spec == Init /\ [][Next]_vars

\* the steps of process() once text is at hand
HistorySteps(w) ==
    \/ \E out \in SummarizerOutcomes : Summarize(w, out)
    \/ TrimCheck(w)
    \/ Pop(w)
    \/ SliceRead(w)
    \/ SliceAssign(w)
    \/ Respond(w)

\* SpecSeq: text requests served one after another by one worker, from an
\* empty history, with no clear
InitSeq == InitWith(0, MaxSeqRequests)

NextSeq ==
    \E w \in {1} :
        \/ \E t \in Texts : Start(w, NoFile, <<>>, t, DefaultForm)
        \/ HistorySteps(w)

SpecSeq == InitSeq /\ [][NextSeq]_vars

\* SpecConc: text requests served concurrently by NWorkers threads, with
\* clear and index requests arriving at any time, on a server whose history
\* is empty or full
PlainText == <<"a">>

InitConc == \E k \in {0, HistoryCap} : InitWith(k, MaxConcRequests)

NextConc ==
    \/ \E w \in Workers :
        \/ Start(w, NoFile, <<>>, PlainText, DefaultForm)
        \/ HistorySteps(w)
    \/ ClearHistory
    \/ ClearRespond
    \/ Index

SpecConc == InitConc /\ [][NextConc]_vars

\* SpecRec: text requests served one after another by one worker, over
\* every form, on a server whose history is empty or full
MaxRecRequests == 1

InitRec == \E k \in {0, HistoryCap} : InitWith(k, MaxRecRequests)

NextRec ==
    \E w \in {1} :
        \/ \E t \in Texts, o \in Forms : Start(w, NoFile, <<>>, t, o)
        \/ HistorySteps(w)

SpecRec == InitRec /\ [][NextRec]_vars

\* the steps of process() on an uploaded file
FileSteps(w) ==
    \/ \E sv \in SaveOutcomes : Stage(w, sv)
    \/ \E r1 \in Outcomes : Extract(w, r1)
    \/ \E np \in 1..MaxPages, r2 \in Outcomes : Ocr(w, np, r2)
    \/ Remove(w)
    \/ HistorySteps(w)

\* SpecFiles: file requests served concurrently by NWorkers threads; the
\* uploads are PDF or text files, and two of them can bear the same name
MaxFileRequests == 2

ConcFiles ==
    {[present |-> TRUE, filename |-> <<"f">> \o Pdf],
     [present |-> TRUE, filename |-> <<"g">> \o Txt]}

InitFiles == \E k \in {0, HistoryCap} : InitWith(k, MaxFileRequests)

NextFiles ==
    \E w \in Workers :
        \/ \E f \in ConcFiles : Start(w, f, <<>>, <<>>, DefaultForm)
        \/ FileSteps(w)

SpecFiles == InitFiles /\ [][NextFiles]_vars

\* SpecOcr: image and PDF uploads served one after another by one worker,
\* over every input language, on a server whose history is empty or full
MaxOcrRequests == 1

OcrFiles ==
    {[present |-> TRUE, filename |-> <<"f">> \o Pdf],
     [present |-> TRUE, filename |-> <<"f">> \o Png]}

InitOcr == \E k \in {0, HistoryCap} : InitWith(k, MaxOcrRequests)

NextOcr ==
    \E w \in {1} :
        \/ \E f \in OcrFiles, o \in OcrForms : Start(w, f, <<>>, <<>>, o)
        \/ FileSteps(w)

SpecOcr == InitOcr /\ [][NextOcr]_vars

----------------------------------------------------------------------------
(* Claims *)

\* a worker whose request has been answered: a response, or a server error
Finished(w) == req[w].pc \in {"done", "raised"}

\* no request is being served
Quiescent == \A w \in Workers : req[w].pc \in {"idle", "done", "raised"}

\* the extractor a declared file name calls for (spec 4.1, 4.2)
DeclaredRoute(name) ==
    LET e == Lower(SplitExt(name))
    IN  IF e = Pdf THEN "pdf"
        ELSE IF e = Docx THEN "docx"
        ELSE IF e = Txt THEN "txt"
        ELSE IF e \in {Png, Jpg, Jpeg} THEN "image"
        ELSE "unsupported"

\* C1: the channel of a request is chosen by the priority file > url > text:
\* a present file is routed by its declared extension whatever url and text
\* hold and nothing is fetched; the url is fetched only when no file is
\* present; the literal text is used only when neither a file nor a
\* non-empty url is present; with no input no channel is chosen.
C1_ChannelPriority ==
    \A w \in Workers :
        LET r == req[w] IN
        r.pc # "idle" =>
            /\ FileTruthy(r.file) =>
                   /\ r.chan = "file"
                   /\ ~r.fetched
                   /\ r.route # "none" => r.route = DeclaredRoute(r.file.filename)
                   /\ r.pc \in {"summarize", "trim", "pop", "assign", "respond", "done"}
                          => r.route = DeclaredRoute(r.file.filename)
            /\ (~FileTruthy(r.file) /\ r.url # <<>>) =>
                   /\ r.chan = "url"
                   /\ r.path = NoPath /\ r.route = "none"
                   /\ r.pc # "fetch" => r.fetched
            /\ (~FileTruthy(r.file) /\ r.url = <<>> /\ r.text # <<>>) =>
                   /\ r.chan = "text"
                   /\ ~r.fetched /\ r.path = NoPath /\ r.route = "none"
                   /\ r.extracted_text = r.text
            /\ (~FileTruthy(r.file) /\ r.url = <<>> /\ r.text = <<>>) =>
                   /\ r.chan = "none"
                   /\ ~r.fetched /\ r.path = NoPath /\ r.extracted_text = <<>>

\* C1 witness: a request carrying a PDF file, a url and a text has been
\* answered from the file alone
C1_Witness ==
    \E w \in Workers :
        /\ req[w].pc = "done"
        /\ req[w].file.filename = <<"f">> \o Pdf
        /\ req[w].url # <<>> /\ req[w].text # <<>>
        /\ req[w].chan = "file" /\ req[w].route = "pdf" /\ ~req[w].fetched

\* C2: a request that ends in a failure leaves the history as it was when the
\* request started.
C2_FailureLeavesHistory ==
    \A w \in Workers :
        (req[w].pc = "done" /\ req[w].fail # "") => history = h0

\* C3: a request that ends in a failure returns a non-empty error.
C3_FailureReported ==
    \A w \in Workers :
        (req[w].pc = "done" /\ req[w].fail # "") => req[w].error # ""

\* C4: the summarizer is called only on cleanly extracted text, never after
\* the selected extractor failed.
C4_SummarizerAfterCleanText ==
    \A w \in Workers :
        req[w].called => req[w].fail \in {"", "SummarizationError"}

\* C5: once a request with a file has finished, on any exit path, its staged
\* file no longer exists.
C5_StagedFileRemoved ==
    \A w \in Workers : Finished(w) => ~Exists(req[w].path)

\* C6: no fault of an extraction path escapes process: a request routed to an
\* extractor never ends in an uncaught exception.
C6_NoFaultEscapes ==
    \A w \in Workers : ~(req[w].pc = "raised" /\ req[w].route # "none")

\* the permutations of 1..n
Perms(n) == {p \in [1..n -> 1..n] : \A i, j \in 1..n : p[i] = p[j] => i = j}

\* the records appended since Init, in append order
NewRecords == SubSeq(appendLog, Len(base) + 1, Len(appendLog))

\* C7: when no request is being served and no clear has run, the history is
\* what appending the requests' records one after another, in some order, and
\* trimming to the last 5 gives.
C7_NoLostUpdate ==
    (Quiescent /\ ~cleared) =>
        \E p \in Perms(Len(NewRecords)) :
            history = LastN(base \o [i \in 1..Len(NewRecords) |-> NewRecords[p[i]]],
                            HistoryCap)

\* C8: every history snapshot returned to a caller holds at most 5 records.
C8_SnapshotBounded == Len(lastView) <= HistoryCap

\* C9: after N > 5 successful summarizations served one after another with no
\* clear, the history is exactly the last 5 records appended, oldest first.
C9_LastFive ==
    (Quiescent /\ Len(appendLog) > HistoryCap) =>
        history = LastN(appendLog, HistoryCap)

\* C9 witness: seven summarizations have succeeded and the last request has
\* been answered
C9_Witness ==
    /\ Quiescent
    /\ Len(appendLog) = HistoryCap + 2
    /\ Len(history) = HistoryCap

\* C10: the clear step leaves the history empty whatever it held, an empty
\* history included, and the snapshot clear returns is empty when the history
\* has stayed empty since.
C10_ClearEmpties ==
    [][/\ (cpc = "idle" /\ cpc' = "cleared") => history' = <<>>
       /\ (cpc = "cleared" /\ cpc' = "idle" /\ history = <<>> /\ variant = "app")
              => lastView' = <<>>]_vars

\* C10 witness: clear has emptied a full history and has not answered yet
C10_Witness ==
    /\ cpc = "cleared"
    /\ cleared
    /\ Len(base) = HistoryCap
    /\ history = <<>>

\* C11: a request with no file, no non-empty url and no non-empty text is
\* answered with a non-empty error, without calling the summarizer and with
\* the history as it was when the request started.
C11_NoInputReported ==
    \A w \in Workers :
        LET r == req[w] IN
        (r.pc = "done" /\ ~FileTruthy(r.file) /\ r.url = <<>> /\ r.text = <<>>)
            => /\ r.fail = "NoInput"
               /\ r.error # ""
               /\ ~r.called
               /\ history = h0

C13_TextPassedThrough ==
    \A w \in Workers :
        LET r == req[w] IN
        (~FileTruthy(r.file) /\ r.url = <<>> /\ r.text # <<>>)
            => /\ ~r.fetched /\ r.path = NoPath /\ r.route = "none"
               /\ r.read = {}
               /\ r.pc \in {"trim", "pop", "assign", "respond", "done"}
                      => (r.called /\ r.prompt.text = r.text)

\* the fields of a history record (spec: SummaryRecord)
RecordFields == {"timestamp", "summary", "language", "length", "format"}

\* C14: a successful summarization appends exactly one record, which holds a
\* timestamp, the summary and the request's output language, length and
\* format; every record of a snapshot returned to a caller lists these five
\* fields.
C14_RecordFields ==
    /\ \A w \in Workers :
           LET r == req[w]
               last == appendLog[Len(appendLog)]
           IN  r.pc = "trim" =>
                   /\ history = Append(h0, last)
                   /\ DOMAIN last = RecordFields
                   /\ last.summary = r.summary
                   /\ last.language = r.output_lang
                   /\ last.length = r.summary_length
                   /\ last.format = r.summary_format
    /\ \A i \in 1..Len(lastView) : DOMAIN lastView[i] = RecordFields

\* C15: staged files do not leak across requests running concurrently: an
\* extractor reads only the upload of its own request, and from the moment a
\* request has staged its file until it removes it, the file is there and
\* holds that request's upload (no other request overwrote or removed it).
C15_StagedFilesIsolated ==
    \A w \in Workers :
        LET r == req[w] IN
        /\ r.read \subseteq {r.n}
        /\ r.pc \in {"extract", "ocr", "remove"} => <<r.path, r.n>> \in fs

\* C16: when the fetch of a request's url meets a non-success status or a
\* network fault, the request gets a FetchError with a non-empty error; from
\* then on its summarizer is never called, the history stays as it was when
\* the request started, and the error is still there when it is answered.
C16_FetchErrorReported ==
    [][\A w \in Workers :
          /\ Fetch(w, Fault) =>
                 /\ req'[w].fail = "FetchError"
                 /\ req'[w].error \in {"Error fetching URL", "URL error"}
          /\ (req[w].fail = "FetchError" /\ req'[w].n = req[w].n) =>
                 /\ ~req'[w].called
                 /\ req'[w].summary = 0
                 /\ req'[w].error = req[w].error
                 /\ req'[w].fail = "FetchError"
                 /\ history' = h0']_vars

\* C16 witness: a request whose fetch failed has been answered with the
\* error, no summarizer call made and the history untouched
C16_Witness ==
    \E w \in Workers :
        /\ req[w].pc = "done"
        /\ req[w].chan = "url" /\ req[w].fetched
        /\ req[w].fail = "FetchError" /\ req[w].error # ""
        /\ ~req[w].called
        /\ history = h0 /\ Len(history) = HistoryCap

\* C17: when the summarizer call fails with the provider's error text e, the
\* request's error becomes the summarization-failure message followed by e
\* as it is, its summary stays empty and no record is appended; the response
\* then carries that error and the empty summary.
C17_SummarizerFailureReported ==
    [][\A w \in Workers :
          /\ \A e \in ProviderErrors :
                 (Summarize(w, e) /\ req'[w].called) =>
                     /\ req'[w].error \in {"Summarization failed",
                                           "Gemini error"}
                     /\ req'[w].detail = e
                     /\ req'[w].summary = 0
                     /\ history' = history /\ appendLog' = appendLog
                     /\ req'[w].pc = "respond"
          /\ (req[w].pc = "respond" /\ req'[w].pc = "done") =>
                 /\ req'[w].error = req[w].error
                 /\ req'[w].detail = req[w].detail
                 /\ req'[w].summary = req[w].summary
                 /\ history' = history]_vars

\* C17 witness: a request whose summarizer call failed on the provider's
\* quota has been answered with that error, no summary and no new record
C17_Witness ==
    \E w \in Workers :
        /\ req[w].pc = "done"
        /\ req[w].called /\ req[w].fail = "SummarizationError"
        /\ req[w].error # "" /\ req[w].detail = "quota"
        /\ req[w].summary = 0
        /\ history = h0 /\ Len(history) = HistoryCap

\* C18: OCR that yields nothing is reported as a failure: a request whose
\* image OCR, or whose PDF OCR fallback after a blank text layer, gave empty
\* or whitespace-only output is answered with a non-empty error and without
\* a summary.
C18_NoTextIsAnError ==
    \A w \in Workers :
        LET r == req[w] IN
        (r.pc = "done" /\ r.route \in {"image", "pdf"}
                       /\ r.fail = "NoTextDetected")
            => (r.error # "" /\ r.summary = 0)

\* C19: the PDF extractor goes on to OCR exactly when the text layer it
\* extracted is empty or whitespace-only; a non-blank text layer is returned
\* as it is and OCR is never invoked for that request; and OCR, when
\* invoked, renders the first page only, whatever the page count.
C19_OcrOnlyWhenLayerBlank ==
    [][\A w \in Workers :
          /\ (req[w].pc = "extract" /\ req'[w].route = "pdf"
                                     /\ Exists(req[w].path)) =>
                 \A r1 \in Outcomes :
                     Extract(w, r1) =>
                         /\ (req'[w].pc = "ocr")
                                <=> (r1 # Fault /\ Strip(r1) = <<>>)
                         /\ (r1 # Fault /\ Strip(r1) # <<>>) =>
                                /\ req'[w].extracted_text = r1
                                /\ req'[w].fail = ""
          /\ (req[w].pc = "ocr" /\ req'[w].pc # "ocr") =>
                 req'[w].ocr_pages = <<1>>
          /\ (req[w].pc # "ocr" /\ req'[w].n = req[w].n) =>
                 req'[w].ocr_pages = req[w].ocr_pages]_vars

\* C19 witness: a PDF with a blank text layer has been through OCR of its
\* first page, and the text OCR found has been summarized
C19_Witness ==
    \E w \in Workers :
        /\ req[w].pc = "done"
        /\ req[w].route = "pdf"
        /\ req[w].ocr_pages = <<1>>
        /\ req[w].fail = "" /\ req[w].called /\ req[w].summary # 0

\* the failures of a selected channel
ChannelFailures == {"UnsupportedType", "ExtractionError", "FetchError"}

\* C20: when the selected channel fails, no other channel of the request is
\* used: after a failed file (unsupported type, extraction error, nothing
\* found by OCR) the url is never fetched, after a failed file or url the
\* request's text is neither taken as the extracted text nor given to the
\* summarizer, and after a failed url no file is staged or read; a file
\* request that ends in an exception has fetched and summarized nothing.
C20_NoFallback ==
    \A w \in Workers :
        LET r == req[w] IN
        /\ (r.fail \in ChannelFailures \cup {"NoTextDetected"}
                /\ r.chan = "file") => ~r.fetched
        /\ (r.fail \in ChannelFailures /\ r.chan = "file") =>
               /\ r.text # <<>> =>
                      (r.extracted_text # r.text /\ r.prompt.text # r.text)
        /\ (r.fail \in ChannelFailures /\ r.chan = "url") =>
               /\ r.path = NoPath /\ r.route = "none" /\ r.read = {}
               /\ r.text # <<>> =>
                      (r.extracted_text # r.text /\ r.prompt.text # r.text)
        /\ (r.pc = "raised" /\ r.chan = "file") => (~r.fetched /\ ~r.called)

\* C20 witness: a request whose PDF could not be extracted, sent with a url
\* and a text beside the file, has been answered without the url being
\* fetched or the text being used
C20_Witness ==
    \E w \in Workers :
        /\ req[w].pc = "done"
        /\ req[w].route = "pdf" /\ req[w].fail = "ExtractionError"
        /\ req[w].url # <<>> /\ req[w].text # <<>>
        /\ ~req[w].fetched
        /\ req[w].extracted_text # req[w].text

\* C21: whenever the summarizer is called, the one instruction it is given
\* names the request's output language, the word ceiling 100, 200 or 300 of
\* a Short, Medium or Long summary, the format directive ("as a paragraph"
\* for Paragraph, "in bullet points" otherwise) and, as its subject, the
\* extracted text.
C21_PromptContents ==
    \A w \in Workers :
        LET r == req[w] IN
        r.called =>
            /\ r.prompt.lang = r.output_lang
            /\ r.summary_length = "Short" => r.prompt.words = 100
            /\ r.summary_length = "Medium" => r.prompt.words = 200
            /\ r.summary_length = "Long" => r.prompt.words = 300
            /\ r.prompt.style = IF r.summary_format = "Paragraph"
                                THEN "as a paragraph"
                                ELSE "in bullet points"
            /\ r.prompt.text = r.extracted_text

\* the OCR language code of an input language (spec: language mapping)
LangCode(input_lang) ==
    IF input_lang = "English" THEN "eng"
    ELSE IF input_lang = "Hindi" THEN "hin"
    ELSE IF input_lang = "French" THEN "fra"
    ELSE IF input_lang = "Spanish" THEN "spa"
    ELSE IF input_lang = "German" THEN "deu"
    ELSE IF input_lang = "Chinese" THEN "chi_sim"
    ELSE IF input_lang = "Japanese" THEN "jpn"
    ELSE "eng"

\* C22: whenever the image extractor or the PDF extractor has run OCR, the
\* language code it used is the code of the request's input language: eng,
\* hin, fra, spa, deu, chi_sim, jpn for English, Hindi, French, Spanish,
\* German, Chinese, Japanese, and eng for every other, missing or empty name.
C22_OcrLanguage ==
    \A w \in Workers :
        LET r == req[w] IN
        r.ocr_lang # "" => r.ocr_lang = LangCode(r.input_lang)

\* C23: a response of process never carries both a summary and an error: a
\* non-empty summary comes with an empty error and a non-empty error with an
\* empty summary.
C23_SummaryXorError ==
    \A w \in Workers :
        req[w].pc = "done" => ~(req[w].summary # 0 /\ req[w].error # "")

\* the timestamp of a history record
TimeOf(rec) == IF "timestamp" \in DOMAIN rec THEN rec.timestamp ELSE rec.time

\* C24: the records of the history are in non-decreasing timestamp order
\* from front to back, also when requests run concurrently and finish in
\* another order than they started.
C24_HistoryOrdered ==
    \A i, j \in 1..Len(history) :
        i < j => TimeOf(history[i]) <= TimeOf(history[j])

\* C25: the two variants select the same input channel: whichever variant
\* serves a request, the channel it selected for the request's file, url and
\* text is the channel app.py selects for them and the channel api/index.py
\* selects for them.
C25_VariantsAgree ==
    \A w \in Workers :
        LET r == req[w] IN
        r.pc # "idle" =>
            /\ r.chan = SelectApp(r.file, r.url, r.text)
            /\ r.chan = SelectApi(r.file, r.url, r.text)

\* C25 witness: the api variant has answered a request with no file, a url
\* and a text from the url, the channel app.py selects as well
C25_Witness ==
    \E w \in Workers :
        /\ variant = "api"
        /\ req[w].pc = "done"
        /\ ~FileTruthy(req[w].file)
        /\ req[w].url # <<>> /\ req[w].text # <<>>
        /\ req[w].chan = "url"
        /\ SelectApp(req[w].file, req[w].url, req[w].text) = "url"

====
